---- MODULE Spec2Model ----
(***************************************************************************)
(* CHIP-8 emulator (Gamers-Blended/chip-8_js).                             *)
(*                                                                         *)
(* State machine of the Renderer, CPU and Speaker classes of               *)
(* src/scripts/renderer.js driven by the host loop of src/scripts/chip8.js.*)
(* JavaScript is single threaded: a handler (init, the animation-frame     *)
(* callback, the XHR onload callback, a key event) runs to completion      *)
(* before the next one starts.  The position of the host inside init() and *)
(* inside cpu.cycle() is the variable hpc; callbacks of other sources are  *)
(* enabled only while the host is idle.                                    *)
(*                                                                         *)
(* JavaScript values that are not numbers are encoded as negative          *)
(* integers: Undefined (the result of Array.pop on an empty array and of   *)
(* an out-of-range typed-array read) and NaN (undefined + 2).              *)
(***************************************************************************)
EXTENDS Integers, Sequences, FiniteSets, TLC

\* ------------------------------------------------------------------------
\* Bounds of the model
\* ------------------------------------------------------------------------

\* number of animation frames in which the host calls cpu.cycle()
MaxFrames == 2

\* ------------------------------------------------------------------------
\* Program constants
\* ------------------------------------------------------------------------

cols == 64
rows == 32
MemSize == 4096
NumRegs == 16
speed == 10
ProgramStart == 512

Undefined == -1
NaN == -2

Addr == 0 .. (MemSize - 1)
RegIdx == 0 .. (NumRegs - 1)

\* ------------------------------------------------------------------------
\* JavaScript arithmetic on the values the emulator handles
\* ------------------------------------------------------------------------

IsNum(n) == n >= 0

RECURSIVE BitAnd(_, _)
BitAnd(a, b) ==
    IF a = 0 \/ b = 0 THEN 0
    ELSE ((a % 2) * (b % 2)) + 2 * BitAnd(a \div 2, b \div 2)

RECURSIVE BitOr(_, _)
BitOr(a, b) ==
    IF a = 0 THEN b
    ELSE IF b = 0 THEN a
    ELSE (IF (a % 2) + (b % 2) > 0 THEN 1 ELSE 0) + 2 * BitOr(a \div 2, b \div 2)

RECURSIVE BitXor(_, _)
BitXor(a, b) ==
    IF a = 0 THEN b
    ELSE IF b = 0 THEN a
    ELSE (((a % 2) + (b % 2)) % 2) + 2 * BitXor(a \div 2, b \div 2)

RECURSIVE Pow2(_)
Pow2(n) == IF n = 0 THEN 1 ELSE 2 * Pow2(n - 1)

ShiftRight(a, n) == a \div Pow2(n)
ShiftLeft(a, n) == a * Pow2(n)

\* ToInt32 of an operand of a bitwise operator: undefined and NaN become 0
ToInt(n) == IF IsNum(n) THEN n ELSE 0

\* store into a Uint8Array element: ToNumber, then modulo 2^8
ToUint8(n) == IF IsNum(n) THEN n % 256 ELSE 0

\* number + k where the left operand may be undefined or NaN
NumAdd(n, k) == IF IsNum(n) THEN n + k ELSE NaN

\* read of a Uint8Array element: undefined outside 0 .. length-1
MemRead(mem, a) == IF a \in Addr THEN mem[a] ELSE Undefined

\* write of a Uint8Array element: ignored outside 0 .. length-1
MemWrite(mem, a, val) == IF a \in Addr THEN [mem EXCEPT ![a] = ToUint8(val)] ELSE mem

\* ------------------------------------------------------------------------
\* State
\* ------------------------------------------------------------------------

VARIABLES
    display,        \* Renderer.display: the set of indices whose element is 1
    canvas,         \* the cells painted on the canvas by the last render()
    memory,         \* CPU.memory
    v,              \* CPU.v
    i,              \* CPU.i
    delayTimer,     \* CPU.delayTimer
    soundTimer,     \* CPU.soundTimer
    pc,             \* CPU.pc
    stack,          \* CPU.stack
    paused,         \* CPU.paused
    oscillator,     \* Speaker.oscillator is set
    audioNodes,     \* number of oscillator nodes started and not stopped
    onNextKeyPress, \* Keyboard.onNextKeyPress: the register of the pending Fx0A, or NoCallback
    keysPressed,    \* Keyboard: the keys held down
    request,        \* the XMLHttpRequest of loadRom: "unsent", "sent", "done"
    hpc,            \* position of the host
    loopi,          \* the loop variable i of CPU.cycle
    frames          \* number of cycle() calls made so far

vars == <<display, canvas, memory, v, i, delayTimer, soundTimer, pc, stack, paused,
          oscillator, audioNodes, onNextKeyPress, keysPressed, request, hpc, loopi, frames>>

NoCallback == -1

\* ------------------------------------------------------------------------
\* Renderer
\* ------------------------------------------------------------------------

\* Renderer.setPixel, the wrap of one coordinate: a single conditional
\* subtraction or addition of the grid size
WrapCoord(c, size) ==
    IF c > size THEN c - size
    ELSE IF c < 0 THEN c + size
    ELSE c

\* Renderer.setPixel: let pixelLoc = x + (y * this.cols), after the wrap
PixelLoc(x, y) == WrapCoord(x, cols) + (WrapCoord(y, rows) * cols)

\* Renderer.setPixel: the display after this.display[pixelLoc] ^= 1 and the
\* returned !this.display[pixelLoc].  A JavaScript Array accepts any index,
\* also one past cols * rows - 1.
SetPixel(disp, x, y) ==
    LET pixelLoc == PixelLoc(x, y)
        wasOn == pixelLoc \in disp
    IN  [display |-> IF wasOn THEN disp \ {pixelLoc} ELSE disp \cup {pixelLoc},
         erased  |-> wasOn]

\* Renderer.render: the cells 0 .. cols*rows-1 whose element is truthy
Render(disp) == {c \in disp : c >= 0 /\ c < cols * rows}

\* ------------------------------------------------------------------------
\* CPU: loading
\* ------------------------------------------------------------------------

sprites ==
    << 240, 144, 144, 144, 240,
        32,  96,  32,  32, 112,
       240,  16, 240, 128, 240,
       240,  16, 240,  16, 240,
       144, 144, 240,  16,  16,
       240, 128, 240,  16, 240,
       240, 128, 240, 144, 240,
       240,  16,  32,  64,  64,
       240, 144, 240, 144, 240,
       240, 144, 240,  16, 240,
       240, 144, 240, 144, 144,
       224, 144, 224, 144, 224,
       240, 128, 128, 128, 240,
       224, 144, 144, 144, 224,
       240, 128, 240, 128, 240,
       240, 128, 240, 128, 128 >>

\* a font loader whose loop stops one byte early
LoadSpritesOneShort(mem) ==
    [a \in Addr |-> IF a < Len(sprites) - 1 THEN sprites[a + 1] ELSE mem[a]]

\* CPU.loadSpritesIntoMemory: memory[i] = sprites[i] for i < sprites.length
LoadSpritesIntoMemory(mem) ==
    [a \in Addr |-> IF a < Len(sprites) THEN sprites[a + 1] ELSE mem[a]]

\* CPU.loadProgramIntoMemory: memory[0x200 + loc] = program[loc] for every
\* loc < program.length; a store past the end of the Uint8Array is ignored
LoadProgramIntoMemory(mem, program) ==
    [a \in Addr |->
        IF a >= ProgramStart /\ a - ProgramStart < Len(program)
        THEN program[a - ProgramStart + 1]
        ELSE mem[a]]

\* a fetch that reads the byte at pc twice instead of the bytes at pc and pc + 1
FetchSameByteTwice(mem, p) ==
    BitOr(ShiftLeft(ToInt(MemRead(mem, p)), 8), ToInt(MemRead(mem, p)))

\* CPU.cycle: let opcode = (this.memory[this.pc] << 8 | this.memory[this.pc + 1])
Fetch(mem, p) ==
    BitOr(ShiftLeft(ToInt(MemRead(mem, p)), 8), ToInt(MemRead(mem, NumAdd(p, 1))))

\* ------------------------------------------------------------------------
\* CPU.executeInstruction: the fields of the opcode
\* ------------------------------------------------------------------------

OpX(opcode) == ShiftRight(BitAnd(opcode, 3840), 8)
OpY(opcode) == ShiftRight(BitAnd(opcode, 240), 4)
OpClass(opcode) == BitAnd(opcode, 61440)
OpNNN(opcode) == BitAnd(opcode, 4095)
OpKK(opcode) == BitAnd(opcode, 255)
OpN(opcode) == BitAnd(opcode, 15)

\* ------------------------------------------------------------------------
\* CPU.executeInstruction: the register file after the arithmetic opcodes.
\* Each LET step is one assignment of the source, in source order.
\* ------------------------------------------------------------------------

\* 7xkk: this.v[x] += kk
Add7xkk(vv, x, kk) == [vv EXCEPT ![x] = ToUint8(vv[x] + kk)]

\* 8xy4: let sum = (this.v[x] += this.v[y]); v[0xF] = 0; if (sum > 0xFF) v[0xF] = 1; v[x] = sum
\* (the value of the compound assignment is the sum before the store truncates it)
Add8xy4(vv, x, y) ==
    LET sum == vv[x] + vv[y]
        v1 == [vv EXCEPT ![x] = ToUint8(sum)]
        v2 == [v1 EXCEPT ![15] = 0]
        v3 == IF sum > 255 THEN [v2 EXCEPT ![15] = 1] ELSE v2
    IN  [v3 EXCEPT ![x] = ToUint8(sum)]

\* 8xy5: v[0xF] = 0; if (v[x] > v[y]) v[0xF] = 1; v[x] -= v[y]
Sub8xy5(vv, x, y) ==
    LET v1 == [vv EXCEPT ![15] = 0]
        v2 == IF v1[x] > v1[y] THEN [v1 EXCEPT ![15] = 1] ELSE v1
    IN  [v2 EXCEPT ![x] = (v2[x] - v2[y]) % 256]

\* 8xy6: v[0xF] = (v[x] & 0x1); v[x] >>= 1
Shr8xy6(vv, x) ==
    LET v1 == [vv EXCEPT ![15] = BitAnd(vv[x], 1)]
    IN  [v1 EXCEPT ![x] = ShiftRight(v1[x], 1)]

\* 8xy7: v[0xF] = 0; if (v[y] > v[x]) v[0xF] = 1; v[x] = v[y] - v[x]
Subn8xy7(vv, x, y) ==
    LET v1 == [vv EXCEPT ![15] = 0]
        v2 == IF v1[y] > v1[x] THEN [v1 EXCEPT ![15] = 1] ELSE v1
    IN  [v2 EXCEPT ![x] = (v2[y] - v2[x]) % 256]

\* an 8xyE that leaves the most significant bit in VF as 0 or 1
Shl8xyENormalized(vv, x) ==
    LET v1 == [vv EXCEPT ![15] = IF BitAnd(vv[x], 128) > 0 THEN 1 ELSE 0]
    IN  [v1 EXCEPT ![x] = ToUint8(ShiftLeft(v1[x], 1))]

\* 8xyE: v[0xF] = (v[x] & 0x80); v[x] <<= 1
Shl8xyE(vv, x) ==
    LET v1 == [vv EXCEPT ![15] = BitAnd(vv[x], 128)]
    IN  [v1 EXCEPT ![x] = ToUint8(ShiftLeft(v1[x], 1))]

\* Dxyn: the inner loop over the columns of one row. sprite is the row byte
\* shifted left col times; (sprite & 0x80) > 0 tests its bit 7.
RECURSIVE DrawCols(_, _, _, _, _, _, _)
DrawCols(col, sprite, row, x, y, vv, disp) ==
    IF col >= 8 THEN [v |-> vv, display |-> disp]
    ELSE
        LET r == SetPixel(disp, vv[x] + col, vv[y] + row)
        IN  IF BitAnd(sprite, 128) > 0
            THEN IF r.erased
                 THEN DrawCols(col + 1, ShiftLeft(sprite, 1), row, x, y,
                               [vv EXCEPT ![15] = 1], r.display)
                 ELSE DrawCols(col + 1, ShiftLeft(sprite, 1), row, x, y, vv, r.display)
            ELSE DrawCols(col + 1, ShiftLeft(sprite, 1), row, x, y, vv, disp)

\* Dxyn: the outer loop over the rows; let sprite = this.memory[this.i + row]
\* (an undefined sprite byte has no set bit)
RECURSIVE DrawRows(_, _, _, _, _, _, _, _)
DrawRows(row, height, mem, ireg, x, y, vv, disp) ==
    IF row >= height THEN [v |-> vv, display |-> disp]
    ELSE
        LET d == DrawCols(0, ToInt(MemRead(mem, ireg + row)), row, x, y, vv, disp)
        IN  DrawRows(row + 1, height, mem, ireg, x, y, d.v, d.display)

\* Dxyn: v[0xF] = 0, then the loops
Draw(mem, ireg, vv, disp, x, y, height) ==
    DrawRows(0, height, mem, ireg, x, y, [vv EXCEPT ![15] = 0], disp)

\* Fx33: the three stores of the decimal digits of Vx
StoreBCD(mem, ireg, val) ==
    LET m1 == MemWrite(mem, ireg, val \div 100)
        m2 == MemWrite(m1, ireg + 1, (val % 100) \div 10)
    IN  MemWrite(m2, ireg + 2, val % 10)

\* Fx55: memory[i + r] = v[r] for r = 0 .. x
RECURSIVE StoreRegs(_, _, _, _, _)
StoreRegs(r, x, mem, ireg, vv) ==
    IF r > x THEN mem
    ELSE StoreRegs(r + 1, x, MemWrite(mem, ireg + r, vv[r]), ireg, vv)

\* Fx65: v[r] = memory[i + r] for r = 0 .. x
RECURSIVE LoadRegs(_, _, _, _, _)
\* an Fx65 that reads Vx alone
LoadRegsOnlyVx(r, x, mem, ireg, vv) ==
    [vv EXCEPT ![x] = ToUint8(MemRead(mem, ireg + x))]

LoadRegs(r, x, mem, ireg, vv) ==
    IF r > x THEN vv
    ELSE LoadRegs(r + 1, x, mem, ireg, [vv EXCEPT ![r] = ToUint8(MemRead(mem, ireg + r))])

\* Cxkk: Math.floor(Math.random() * 0xFF), Math.random() in [0, 1)
RandValues == 0 .. 254

\* ------------------------------------------------------------------------
\* Timers and Speaker
\* ------------------------------------------------------------------------

\* a timer update without the test for zero
UpdateTimerUnchecked(t) == t - 1

\* CPU.updateTimers, for one timer: if (timer > 0) timer -= 1
UpdateTimer(t) == IF t > 0 THEN t - 1 ELSE t

\* a play that starts an oscillator whether or not one is playing
SpeakerPlayUnguarded(sp) == [oscillator |-> TRUE, audioNodes |-> sp.audioNodes + 1]

\* Speaker.play: if (this.audioCtx && !this.oscillator) create and start one
SpeakerPlay(sp) ==
    IF ~sp.oscillator
    THEN [oscillator |-> TRUE, audioNodes |-> sp.audioNodes + 1]
    ELSE sp

\* Speaker.stop: if (this.oscillator) stop, disconnect and forget it
SpeakerStop(sp) ==
    IF sp.oscillator
    THEN [oscillator |-> FALSE, audioNodes |-> sp.audioNodes - 1]
    ELSE sp

\* CPU.playSound
PlaySound(timer, sp) == IF timer > 0 THEN SpeakerPlay(sp) ELSE SpeakerStop(sp)

\* ------------------------------------------------------------------------
\* CPU.executeInstruction
\* ------------------------------------------------------------------------

\* Keyboard.isKeyPressed(keyCode)
IsKeyPressed(keys, keyCode) == keyCode \in keys

\* The fields an instruction reads and writes, as a record
Machine ==
    [pc |-> pc, v |-> v, i |-> i, stack |-> stack, memory |-> memory,
     display |-> display, paused |-> paused, onNextKeyPress |-> onNextKeyPress,
     delayTimer |-> delayTimer, soundTimer |-> soundTimer, thrown |-> FALSE]

\* 00EE: this.pc = this.stack.pop()
Ret(s) ==
    IF Len(s.stack) = 0
    THEN [s EXCEPT !.pc = Undefined]
    ELSE [s EXCEPT !.pc = s.stack[Len(s.stack)],
                   !.stack = SubSeq(s.stack, 1, Len(s.stack) - 1)]

\* a 2nnn that saves the address of the call instead of the address after it
CallSavingCallSite(s, nnn) == [s EXCEPT !.stack = Append(s.stack, s.pc - 2), !.pc = nnn]

\* 2nnn: this.stack.push(this.pc); this.pc = (opcode & 0xFFF)
Call(s, nnn) == [s EXCEPT !.stack = Append(s.stack, s.pc), !.pc = nnn]

\* class 0x0000: switch (opcode) with the cases 0x00E0 and 0x00EE and no default
Exec0(s, opcode) ==
    IF opcode = 224 THEN [s EXCEPT !.display = {}]
    ELSE IF opcode = 238 THEN Ret(s)
    ELSE s

\* class 0x8000: switch (opcode & 0xF) with the cases 0 .. 7 and 0xE and no default
Exec8(s, opcode) ==
    LET x == OpX(opcode)
        y == OpY(opcode)
        n == OpN(opcode)
    IN  CASE n = 0 -> [s EXCEPT !.v[x] = s.v[y]]
          [] n = 1 -> [s EXCEPT !.v[x] = BitOr(s.v[x], s.v[y])]
          [] n = 2 -> [s EXCEPT !.v[x] = BitAnd(s.v[x], s.v[y])]
          [] n = 3 -> [s EXCEPT !.v[x] = BitXor(s.v[x], s.v[y])]
          [] n = 4 -> [s EXCEPT !.v = Add8xy4(s.v, x, y)]
          [] n = 5 -> [s EXCEPT !.v = Sub8xy5(s.v, x, y)]
          [] n = 6 -> [s EXCEPT !.v = Shr8xy6(s.v, x)]
          [] n = 7 -> [s EXCEPT !.v = Subn8xy7(s.v, x, y)]
          [] n = 14 -> [s EXCEPT !.v = Shl8xyE(s.v, x)]
          [] OTHER -> s

\* class 0xE000: switch (opcode & 0xFF) with the cases 0x9E and 0xA1 and no default
ExecE(s, opcode, keys) ==
    LET x == OpX(opcode)
        kk == OpKK(opcode)
    IN  CASE kk = 158 -> IF IsKeyPressed(keys, s.v[x]) THEN [s EXCEPT !.pc = NumAdd(s.pc, 2)] ELSE s
          [] kk = 161 -> IF ~IsKeyPressed(keys, s.v[x]) THEN [s EXCEPT !.pc = NumAdd(s.pc, 2)] ELSE s
          [] OTHER -> s

\* an Fx0A that registers the callback and does not pause
KeyWaitWithoutPause(s, x) == [s EXCEPT !.onNextKeyPress = x]

\* Fx0A: this.paused = true; this.keyboard.onNextKeyPress = function(key) {...}
KeyWait(s, x) == [s EXCEPT !.paused = TRUE, !.onNextKeyPress = x]

\* class 0xF000: switch (opcode & 0xFF) with nine cases and no default
ExecF(s, opcode) ==
    LET x == OpX(opcode)
        kk == OpKK(opcode)
    IN  CASE kk = 7 -> [s EXCEPT !.v[x] = ToUint8(s.delayTimer)]
          [] kk = 10 -> KeyWait(s, x)
          [] kk = 21 -> [s EXCEPT !.delayTimer = s.v[x]]
          [] kk = 24 -> [s EXCEPT !.soundTimer = s.v[x]]
          [] kk = 30 -> [s EXCEPT !.i = s.i + s.v[x]]
          [] kk = 41 -> [s EXCEPT !.i = s.v[x] * 5]
          [] kk = 51 -> [s EXCEPT !.memory = StoreBCD(s.memory, s.i, s.v[x])]
          [] kk = 85 -> [s EXCEPT !.memory = StoreRegs(0, x, s.memory, s.i, s.v)]
          [] kk = 101 -> [s EXCEPT !.v = LoadRegs(0, x, s.memory, s.i, s.v)]
          [] OTHER -> s

\* an executeInstruction that leaves out the pre-advance of the program counter
PreAdvanceLeftOut(s) == s

\* CPU.executeInstruction: this.pc += 2, before the switch
PreAdvance(s) == [s EXCEPT !.pc = NumAdd(s.pc, 2)]

\* CPU.executeInstruction(opcode): this.pc += 2, then switch (opcode & 0xF000).
\* rand is the value of Math.floor(Math.random() * 0xFF), keys the keys held.
ExecuteInstruction(s0, opcode, rand, keys) ==
    LET s == PreAdvance(s0)
        x == OpX(opcode)
        y == OpY(opcode)
        kk == OpKK(opcode)
        nnn == OpNNN(opcode)
        class == OpClass(opcode)
    IN  CASE class = 0 -> Exec0(s, opcode)
          [] class = 4096 -> [s EXCEPT !.pc = nnn]
          [] class = 8192 -> Call(s, nnn)
          [] class = 12288 -> IF s.v[x] = kk THEN [s EXCEPT !.pc = NumAdd(s.pc, 2)] ELSE s
          [] class = 16384 -> IF s.v[x] # kk THEN [s EXCEPT !.pc = NumAdd(s.pc, 2)] ELSE s
          [] class = 20480 -> IF s.v[x] = s.v[y] THEN [s EXCEPT !.pc = NumAdd(s.pc, 2)] ELSE s
          [] class = 24576 -> [s EXCEPT !.v[x] = kk]
          [] class = 28672 -> [s EXCEPT !.v = Add7xkk(s.v, x, kk)]
          [] class = 32768 -> Exec8(s, opcode)
          [] class = 36864 -> IF s.v[x] # s.v[y] THEN [s EXCEPT !.pc = NumAdd(s.pc, 2)] ELSE s
          [] class = 40960 -> [s EXCEPT !.i = nnn]
          [] class = 45056 -> [s EXCEPT !.pc = nnn + s.v[0]]
          [] class = 49152 -> [s EXCEPT !.v[x] = BitAnd(rand, kk)]
          [] class = 53248 ->
                LET d == Draw(s.memory, s.i, s.v, s.display, x, y, OpN(opcode))
                IN  [s EXCEPT !.v = d.v, !.display = d.display]
          [] class = 57344 -> ExecE(s, opcode, keys)
          [] class = 61440 -> ExecF(s, opcode)
          [] OTHER -> [s EXCEPT !.thrown = TRUE]

\* ------------------------------------------------------------------------
\* Program images
\* ------------------------------------------------------------------------

\* the bytes of a sequence of 16-bit instruction words, high byte first
Image(words) ==
    [k \in 1 .. 2 * Len(words) |->
        IF k % 2 = 1 THEN words[(k + 1) \div 2] \div 256 ELSE words[k \div 2] % 256]

\* the instruction word with class c and the fields x, y, n
Word(c, x, y, n) == (c * 4096) + (x * 256) + (y * 16) + n

\* registers and byte values the generated programs use
TestRegs == {0, 1, 15}
TestBytes == {0, 5, 10, 255}

\* the largest program that fits: 4096 - 0x200 bytes
MaxProgramLen == MemSize - ProgramStart

\* a program of MaxProgramLen + 1 bytes, every word 0x1200 (JP 0x200)
TooLargeRom == [k \in 1 .. (MaxProgramLen + 1) |-> IF k % 2 = 1 THEN 18 ELSE 0]

\* nested subroutines: 0x200 CALL 0x206; 0x202 JP 0x202; 0x206 CALL 0x20A;
\* 0x208 RET; 0x20A CALL 0x20E; 0x20C RET; 0x20E RET
NestedCallRom == Image(<<8710, 4610, 0, 8714, 238, 8718, 238, 238>>)

\* skips taken and not taken, a jump with offset and a call:
\* 0x200 LD V0,1; SE V0,1; -; SE V0,2; SNE V0,1; SNE V0,2; -; SE V0,V1;
\* 0x210 SE V0,V0; -; SNE V0,V0; SNE V0,V1; -; SKP V0; CLS; SKNP V0;
\* 0x220 CLS; JP V0,0x225; -; CALL 0x22A; -; 0x22A JP 0x22A
ControlFlowRom ==
    Image(<<24577, 12289, 0, 12290, 16385, 16386, 0, 20496,
            20480, 0, 36864, 36880, 0, 57502, 224, 57505,
            224, 45605, 0, 8746, 0, 4650>>)

\* the programs the ROM request may deliver
Roms ==
    { Image(<<65535>>),                       \* 0xFFFF
      Image(<<291, 4608>>),                   \* 0x0123, JP 0x200
      Image(<<32792, 57344, 61695, 4614>>),   \* 0x8018, 0xE000, 0xF0FF, JP 0x206
      Image(<<238>>),                         \* RET on the empty stack
      NestedCallRom,
      Image(<<24586, 24837, 32788>>),         \* LD V0,0x0A; LD V1,0x05; ADD V0,V1
      Image(<<24831, 41045, 53509, 224, 4616>>), \* LD V0,63; LD I,0x55; DRW V0,V1,5; CLS; JP 0x208
      Image(<<24579, 61461, 61464, 61447, 4614>>), \* LD V0,3; LD DT,V0; LD ST,V0; LD V0,DT; JP 0x206
      Image(<<61706, 4610>>),                 \* LD V1,K; JP 0x202
      Image(<<24577, 61461, 25087, 61720, 4616>>), \* LD V0,1; LD DT,V0; LD V1,255; LD ST,V1; JP 0x208
      Image(<<24578, 61464, 4612>>),          \* LD V0,2; LD ST,V0; JP 0x204
      Image(<<24579, 61461, 61464, 61706, 4616>>), \* LD V0,3; LD DT,V0; LD ST,V0; LD V1,K; JP 0x208
      Image(<<8704>>),                        \* CALL 0x200
      ControlFlowRom,
      TooLargeRom }

\* the keys of the key events
Keys == {1, 10}

\* ------------------------------------------------------------------------
\* Initial state: the constructors of Renderer, Keyboard, Speaker and CPU
\* ------------------------------------------------------------------------

Init ==
    /\ display = {}
    /\ canvas = {}
    /\ memory = [a \in Addr |-> 0]
    /\ v = [r \in RegIdx |-> 0]
    /\ i = 0
    /\ delayTimer = 0
    /\ soundTimer = 0
    /\ pc = ProgramStart
    /\ stack = <<>>
    /\ paused = FALSE
    /\ oscillator = FALSE
    /\ audioNodes = 0
    /\ onNextKeyPress = NoCallback
    /\ keysPressed = {}
    /\ request = "unsent"
    /\ hpc = "init"
    /\ loopi = 0
    /\ frames = 0

\* ------------------------------------------------------------------------
\* Host: init() of chip8.js
\* ------------------------------------------------------------------------

\* init: cpu.loadSpritesIntoMemory()
InitLoadSprites ==
    /\ hpc = "init"
    /\ memory' = LoadSpritesIntoMemory(memory)
    /\ hpc' = "sprites"
    /\ UNCHANGED <<display, canvas, v, i, delayTimer, soundTimer, pc, stack, paused,
                   oscillator, audioNodes, onNextKeyPress, keysPressed, request, loopi, frames>>

\* init: cpu.loadRom(...) sends the request; requestAnimationFrame(step)
InitLoadRom ==
    /\ hpc = "sprites"
    /\ request' = "sent"
    /\ hpc' = "idle"
    /\ UNCHANGED <<display, canvas, memory, v, i, delayTimer, soundTimer, pc, stack, paused,
                   oscillator, audioNodes, onNextKeyPress, keysPressed, loopi, frames>>

\* request.onload with a response: loadProgramIntoMemory(new Uint8Array(response))
RomOnload(program) ==
    /\ hpc = "idle"
    /\ request = "sent"
    /\ memory' = LoadProgramIntoMemory(memory, program)
    /\ request' = "done"
    /\ UNCHANGED <<display, canvas, v, i, delayTimer, soundTimer, pc, stack, paused,
                   oscillator, audioNodes, onNextKeyPress, keysPressed, hpc, loopi, frames>>

\* request.onload with no response: if (request.response) is false
RomOnloadNoResponse ==
    /\ hpc = "idle"
    /\ request = "sent"
    /\ request' = "done"
    /\ UNCHANGED <<display, canvas, memory, v, i, delayTimer, soundTimer, pc, stack, paused,
                   oscillator, audioNodes, onNextKeyPress, keysPressed, hpc, loopi, frames>>

\* ------------------------------------------------------------------------
\* Host: step() of chip8.js calls cpu.cycle()
\* ------------------------------------------------------------------------

\* step: elapsed > fpsInterval, cpu.cycle() is entered and its loop starts
CycleBegin ==
    /\ hpc = "idle"
    /\ frames < MaxFrames
    /\ frames' = frames + 1
    /\ loopi' = 0
    /\ hpc' = "loop"
    /\ UNCHANGED <<display, canvas, memory, v, i, delayTimer, soundTimer, pc, stack, paused,
                   oscillator, audioNodes, onNextKeyPress, keysPressed, request>>

\* cycle: one iteration of the loop with !this.paused: fetch and execute.
\* An exception leaves cycle() and step(): no further frame is requested.
CycleExecute ==
    /\ hpc = "loop"
    /\ loopi < speed
    /\ ~paused
    /\ LET opcode == Fetch(memory, pc)
       IN  \E rand \in (IF OpClass(opcode) = 49152 THEN RandValues ELSE {0}) :
             LET s == ExecuteInstruction(Machine, opcode, rand, keysPressed)
             IN  /\ pc' = s.pc
                 /\ v' = s.v
                 /\ i' = s.i
                 /\ stack' = s.stack
                 /\ memory' = s.memory
                 /\ display' = s.display
                 /\ paused' = s.paused
                 /\ onNextKeyPress' = s.onNextKeyPress
                 /\ delayTimer' = s.delayTimer
                 /\ soundTimer' = s.soundTimer
                 /\ hpc' = IF s.thrown THEN "crashed" ELSE "loop"
    /\ loopi' = loopi + 1
    /\ UNCHANGED <<canvas, oscillator, audioNodes, keysPressed, request, frames>>

\* cycle: one iteration of the loop with this.paused
CycleSkip ==
    /\ hpc = "loop"
    /\ loopi < speed
    /\ paused
    /\ loopi' = loopi + 1
    /\ UNCHANGED <<display, canvas, memory, v, i, delayTimer, soundTimer, pc, stack, paused,
                   oscillator, audioNodes, onNextKeyPress, keysPressed, request, hpc, frames>>

\* a timer step that updates the timers also while paused
CycleTimersWhilePaused ==
    /\ hpc = "loop"
    /\ loopi = speed
    /\ delayTimer' = UpdateTimer(delayTimer)
    /\ soundTimer' = UpdateTimer(soundTimer)
    /\ hpc' = "sound"
    /\ UNCHANGED <<display, canvas, memory, v, i, pc, stack, paused,
                   oscillator, audioNodes, onNextKeyPress, keysPressed, request, loopi, frames>>

\* cycle: if (!this.paused) this.updateTimers()
CycleTimers ==
    /\ hpc = "loop"
    /\ loopi = speed
    /\ IF ~paused
       THEN /\ delayTimer' = UpdateTimer(delayTimer)
            /\ soundTimer' = UpdateTimer(soundTimer)
       ELSE UNCHANGED <<delayTimer, soundTimer>>
    /\ hpc' = "sound"
    /\ UNCHANGED <<display, canvas, memory, v, i, pc, stack, paused,
                   oscillator, audioNodes, onNextKeyPress, keysPressed, request, loopi, frames>>

\* cycle: this.playSound(): speaker.play(440) or speaker.stop()
CycleSound ==
    /\ hpc = "sound"
    /\ LET sp == PlaySound(soundTimer, [oscillator |-> oscillator, audioNodes |-> audioNodes])
       IN  /\ oscillator' = sp.oscillator
           /\ audioNodes' = sp.audioNodes
    /\ hpc' = "render"
    /\ UNCHANGED <<display, canvas, memory, v, i, delayTimer, soundTimer, pc, stack, paused,
                   onNextKeyPress, keysPressed, request, loopi, frames>>

\* a cycle() that renders right after the timer update and leaves out the tone
CycleRenderBeforeSound ==
    /\ hpc \in {"sound", "render"}
    /\ canvas' = Render(display)
    /\ hpc' = "idle"
    /\ UNCHANGED <<display, memory, v, i, delayTimer, soundTimer, pc, stack, paused,
                   oscillator, audioNodes, onNextKeyPress, keysPressed, request, loopi, frames>>

\* cycle: this.renderer.render(); step: requestAnimationFrame(step)
CycleRender ==
    /\ hpc = "render"
    /\ canvas' = Render(display)
    /\ hpc' = "idle"
    /\ UNCHANGED <<display, memory, v, i, delayTimer, soundTimer, pc, stack, paused,
                   oscillator, audioNodes, onNextKeyPress, keysPressed, request, loopi, frames>>

\* ------------------------------------------------------------------------
\* Keyboard events
\* ------------------------------------------------------------------------

\* key press: the key is held; a pending onNextKeyPress callback (set by
\* Fx0A: this.v[x] = key; this.paused = false) is called and cleared
KeyDown(key) ==
    /\ hpc = "idle"
    /\ keysPressed' = keysPressed \cup {key}
    /\ IF onNextKeyPress # NoCallback
       THEN /\ v' = [v EXCEPT ![onNextKeyPress] = ToUint8(key)]
            /\ paused' = FALSE
            /\ onNextKeyPress' = NoCallback
       ELSE UNCHANGED <<v, paused, onNextKeyPress>>
    /\ UNCHANGED <<display, canvas, memory, i, delayTimer, soundTimer, pc, stack,
                   oscillator, audioNodes, request, hpc, loopi, frames>>

\* key release
KeyUp(key) ==
    /\ hpc = "idle"
    /\ key \in keysPressed
    /\ keysPressed' = keysPressed \ {key}
    /\ UNCHANGED <<display, canvas, memory, v, i, delayTimer, soundTimer, pc, stack, paused,
                   oscillator, audioNodes, onNextKeyPress, request, hpc, loopi, frames>>

\* ------------------------------------------------------------------------
\* The emulator
\* ------------------------------------------------------------------------

Next ==
    \/ InitLoadSprites
    \/ InitLoadRom
    \/ \E program \in Roms : RomOnload(program)
    \/ RomOnloadNoResponse
    \/ CycleBegin
    \/ CycleExecute
    \/ CycleSkip
    \/ CycleTimers
    \/ CycleSound
    \/ CycleRender
    \/ \E key \in Keys : KeyDown(key)
    \/ \E key \in Keys : KeyUp(key)

Spec == Init /\ [][Next]_vars

\* ------------------------------------------------------------------------
\* The instruction loop on a loaded program.
\*
\* The initial states are the states of Spec in which init() has run, the
\* ROM request has completed before the first frame, and cpu.cycle() has
\* just been entered for the first time; the program is drawn from ExecRoms.
\* ------------------------------------------------------------------------

\* LD Vx, kk
LdByte(x, kk) == 24576 + (x * 256) + kk

\* LD Vx,aa; LD Vy,bb; 8xyn for n = 4 (ADD), 5 (SUB), 7 (SUBN)
AluRoms ==
    { Image(<<LdByte(x, aa), LdByte(y, bb), Word(8, x, y, n)>>) :
        x \in TestRegs, y \in TestRegs, aa \in TestBytes, bb \in TestBytes, n \in {4, 5, 7} }

\* LD Vx,aa; LD Vy,bb; LD I,glyph; DRW Vx,Vy,n; DRW Vx,Vy,n
DrawRoms ==
    { Image(<<LdByte(x, aa), LdByte(y, bb), 40960 + glyph, Word(13, x, y, n), Word(13, x, y, n)>>) :
        x \in TestRegs, y \in TestRegs, aa \in {0, 60, 64}, bb \in {0, 30}, glyph \in {0},
        n \in {1, 5} }

\* words that are no CHIP-8 instruction
UnknownRoms ==
    { Image(<<w>>) : w \in {65535, 291, 32792, 32799, 57344, 61695} }

\* JP 0xFFF; and LD I,0xFFF; LD B,V0
AddressRoms ==
    { Image(<<8191>>), Image(<<45055, 61491>>) }

\* LD Vx,aa; 8x1n for n = 6 (SHR), 0xE (SHL)
ShiftRoms ==
    { Image(<<LdByte(x, aa), Word(8, x, 1, n)>>) :
        x \in TestRegs, aa \in {0, 5, 128, 255}, n \in {6, 14} }

\* LD V0,aa; LD Vx,bb; LD I,nnn; LD [I],Vx; LD Vx,[I] with I in free memory,
\* at the end of memory and on the program itself; and LD I,nnn; LD Vx,[I]
\* on the font and on the program
StoreLoadRoms ==
    { Image(<<LdByte(0, aa), LdByte(x, bb), 40960 + nnn, Word(15, x, 5, 5), Word(15, x, 6, 5)>>) :
        x \in TestRegs, aa \in {5, 255}, bb \in {0, 10}, nnn \in {768, 4080, 520} }
    \cup { Image(<<40960 + nnn, Word(15, x, 6, 5)>>) : x \in TestRegs, nnn \in {0, 512} }

\* RND V0, 0xFF
RandomRoms ==
    { Image(<<49407>>) }

ExecRoms == AluRoms \cup DrawRoms \cup UnknownRoms \cup AddressRoms \cup RandomRoms
            \cup ShiftRoms \cup StoreLoadRoms

InitExec ==
    /\ display = {}
    /\ canvas = {}
    /\ \E program \in ExecRoms :
          memory = LoadProgramIntoMemory(LoadSpritesIntoMemory([a \in Addr |-> 0]), program)
    /\ v = [r \in RegIdx |-> 0]
    /\ i = 0
    /\ delayTimer = 0
    /\ soundTimer = 0
    /\ pc = ProgramStart
    /\ stack = <<>>
    /\ paused = FALSE
    /\ oscillator = FALSE
    /\ audioNodes = 0
    /\ onNextKeyPress = NoCallback
    /\ keysPressed = {}
    /\ request = "done"
    /\ hpc = "loop"
    /\ loopi = 0
    /\ frames = 1

NextExec == CycleExecute

SpecExec == InitExec /\ [][NextExec]_vars

\* ------------------------------------------------------------------------
\* The display surface on its own: a caller of Renderer.setPixel(x, y), as
\* Renderer.testRender is, with coordinates around the edges of the grid.
\* ------------------------------------------------------------------------

ToggleXs == {-1, 0, 1, 63, 64}
ToggleYs == {-1, 0, 31, 32}

TogglePixel(x, y) ==
    /\ display' = SetPixel(display, x, y).display
    /\ UNCHANGED <<canvas, memory, v, i, delayTimer, soundTimer, pc, stack, paused,
                   oscillator, audioNodes, onNextKeyPress, keysPressed, request, hpc, loopi, frames>>

NextRenderer == \E x \in ToggleXs, y \in ToggleYs : TogglePixel(x, y)

SpecRenderer == Init /\ [][NextRenderer]_vars

\* ------------------------------------------------------------------------
\* Vocabulary of the properties
\* ------------------------------------------------------------------------

\* the next step of the host is a fetch and execute
Executing == hpc = "loop" /\ loopi < speed /\ ~paused

\* the instruction word at address a, high byte first
WordAt(mem, a) == (mem[a] * 256) + mem[a + 1]

\* the instruction the next fetch reads, when pc is an address
CurOp == IF pc \in 0 .. (MemSize - 2) THEN WordAt(memory, pc) ELSE 0

Nib(w, k) == (w \div Pow2(4 * k)) % 16

\* the instruction set: the words that are one of the 36 CHIP-8 instructions
\* (classes 1..7 and 9..D are taken as recognized whatever their operands)
RecognizedOpcode(w) ==
    LET c == Nib(w, 3)
        lo == w % 256
    IN  \/ c \notin {0, 8, 14, 15}
        \/ c = 0 /\ w \in {224, 238}
        \/ c = 8 /\ Nib(w, 0) \in (0 .. 7) \cup {14}
        \/ c = 14 /\ lo \in {158, 161}
        \/ c = 15 /\ lo \in {7, 10, 21, 24, 30, 41, 51, 85, 101}

\* C1: executing an instruction word that is no CHIP-8 instruction fails:
\* the step that fetches it ends in the failed state of the host, in which
\* no instruction is executed any more.
C1_UnknownOpcodeFails ==
    [][(Executing /\ ~RecognizedOpcode(CurOp)) => hpc' = "crashed"]_vars

Carry(a, b) == IF a + b > 255 THEN 1 ELSE 0
NoBorrow(a, b) == IF a > b THEN 1 ELSE 0

\* C2: for all registers x, y (VF included) and all values a = Vx, b = Vy,
\* 8xy4 leaves VF = 1 iff a + b > 255, else 0, and the result (a + b) mod 256
\* in Vx (when Vx is VF itself, the flag is what VF holds).
C2_AddSetsCarryAndSum ==
    [][(Executing /\ Nib(CurOp, 3) = 8 /\ Nib(CurOp, 0) = 4) =>
         LET x == Nib(CurOp, 2)
             y == Nib(CurOp, 1)
         IN  /\ v'[15] = Carry(v[x], v[y])
             /\ x # 15 => v'[x] = (v[x] + v[y]) % 256]_vars

\* C3: for all registers x, y (VF included) and all values a = Vx, b = Vy,
\* 8xy5 leaves VF = 1 iff a > b and (a - b) mod 256 in Vx; 8xy7 leaves
\* VF = 1 iff b > a and (b - a) mod 256 in Vx (when Vx is VF itself, the
\* flag is what VF holds).
C3_SubSetsNoBorrowAndDifference ==
    [][(Executing /\ Nib(CurOp, 3) = 8 /\ Nib(CurOp, 0) \in {5, 7}) =>
         LET x == Nib(CurOp, 2)
             y == Nib(CurOp, 1)
             a == IF Nib(CurOp, 0) = 5 THEN v[x] ELSE v[y]
             b == IF Nib(CurOp, 0) = 5 THEN v[y] ELSE v[x]
         IN  /\ v'[15] = NoBorrow(a, b)
             /\ x # 15 => v'[x] = (a - b) % 256]_vars

\* C4: 2nnn pushes the address of the instruction after the call and jumps
\* to nnn; 00EE on a non-empty stack pops exactly the most recently pushed
\* entry into PC: calls and returns are matched last in, first out.
C4_CallReturnLIFO ==
    [][Executing =>
         /\ Nib(CurOp, 3) = 2 =>
              /\ stack' = Append(stack, pc + 2)
              /\ pc' = CurOp % 4096
         /\ (CurOp = 238 /\ Len(stack) > 0) =>
              /\ pc' = stack[Len(stack)]
              /\ stack' = SubSeq(stack, 1, Len(stack) - 1)]_vars

\* C4 witness: in the nested-call program the innermost of three calls has
\* returned to the instruction after it, two return addresses remain
C4_Witness ==
    /\ \A a \in 1 .. Len(NestedCallRom) : memory[ProgramStart + a - 1] = NestedCallRom[a]
    /\ pc = 524
    /\ stack = <<514, 520>>

\* C5: 00EE on the empty stack fails (the host ends in the failed state) and
\* leaves PC a number.
C5_StackUnderflowFails ==
    [][(Executing /\ CurOp = 238 /\ Len(stack) = 0) =>
         (hpc' = "crashed" /\ IsNum(pc'))]_vars

\* the cell of the 64 x 32 grid at column x mod 64 and row y mod 32
WrappedCell(x, y) == (x % cols) + ((y % rows) * cols)

\* C6: a toggle at (x, y) toggles exactly the cell at column x mod 64 and
\* row y mod 32 (so 64 acts as 0 and -1 as 63, 32 as 0 and -1 as 31), an
\* index in 0 .. 2047.
C6_TogglePixelWraps ==
    [][\A x \in ToggleXs, y \in ToggleYs :
         TogglePixel(x, y) =>
            /\ WrappedCell(x, y) \in 0 .. ((cols * rows) - 1)
            /\ display' = IF WrappedCell(x, y) \in display
                          THEN display \ {WrappedCell(x, y)}
                          ELSE display \cup {WrappedCell(x, y)}]_vars

\* the loaded program is LD Vx,aa; LD Vy,bb; LD I,nnn; DRW Vx,Vy,n; DRW Vx,Vy,n
IsDrawTwice ==
    /\ Nib(WordAt(memory, 512), 3) = 6
    /\ Nib(WordAt(memory, 514), 3) = 6
    /\ Nib(WordAt(memory, 516), 3) = 10
    /\ Nib(WordAt(memory, 518), 3) = 13
    /\ WordAt(memory, 520) = WordAt(memory, 518)
    /\ Nib(WordAt(memory, 512), 2) = Nib(WordAt(memory, 518), 2)
    /\ Nib(WordAt(memory, 514), 2) = Nib(WordAt(memory, 518), 1)

\* the sprite of the draw at 0x206 has a set bit
SpriteHasBit ==
    \E r \in 0 .. (Nib(WordAt(memory, 518), 0) - 1) : MemRead(memory, i + r) > 0

\* C7: the second of two identical draws in a row (Vx and Vy as they were
\* before the first, which drew on the blank display) restores the display,
\* and leaves VF = 1 when it turned a pixel off.
C7_DrawTwiceRestores ==
    [][(Executing /\ IsDrawTwice /\ pc = 520 /\ SpriteHasBit
          /\ v[Nib(WordAt(memory, 514), 2)] = WordAt(memory, 514) % 256
          /\ v[Nib(WordAt(memory, 512), 2)] =
               (IF Nib(WordAt(memory, 512), 2) = Nib(WordAt(memory, 514), 2)
                THEN WordAt(memory, 514) % 256 ELSE WordAt(memory, 512) % 256))
        => /\ display' = {}
           /\ (display \ display' # {}) => v'[15] = 1]_vars

\* C8: loading a program of more than 4096 - 0x200 bytes leaves memory
\* unchanged (the load is rejected, nothing is copied).
C8_ProgramTooLargeRejected ==
    [][\A program \in Roms :
         (Len(program) > MaxProgramLen /\ RomOnload(program)) => memory' = memory]_vars

\* C9: after the three steps of LD Vx,aa; LD Vy,bb; ADD Vx,Vy loaded at
\* 0x200 (x # y, neither VF): Vx = (aa + bb) mod 256, Vy = bb, VF = 1 iff
\* aa + bb > 255, PC = 0x206; the bytes 60 0A 61 05 80 14 leave V0 = 15,
\* V1 = 5, VF = 0.
C9_SequenceLdLdAdd ==
    LET w0 == WordAt(memory, 512)
        w1 == WordAt(memory, 514)
        w2 == WordAt(memory, 516)
        x == Nib(w0, 2)
        y == Nib(w1, 2)
        aa == w0 % 256
        bb == w1 % 256
    IN  /\ (/\ loopi = 3 /\ hpc = "loop"
            /\ Nib(w0, 3) = 6 /\ Nib(w1, 3) = 6
            /\ w2 = 32768 + (x * 256) + (y * 16) + 4
            /\ x # y /\ x # 15 /\ y # 15)
           => /\ v[x] = (aa + bb) % 256
              /\ v[y] = bb
              /\ v[15] = Carry(aa, bb)
              /\ pc = 518
        /\ (/\ loopi = 3 /\ hpc = "loop"
            /\ <<memory[512], memory[513], memory[514], memory[515], memory[516], memory[517]>>
                 = <<96, 10, 97, 5, 128, 20>>)
           => (v[0] = 15 /\ v[1] = 5 /\ v[15] = 0)

\* C9 witness: the three steps of 60 0A 61 05 80 14 have run
C9_Witness ==
    /\ loopi = 3
    /\ <<memory[512], memory[513], memory[514], memory[515], memory[516], memory[517]>>
         = <<96, 10, 97, 5, 128, 20>>
    /\ v[0] = 15
    /\ pc = 518

\* the rows of the hex-digit glyphs 0 .. F: the left four pixels of each row
GlyphRows ==
    << <<15, 9, 9, 9, 15>>, <<2, 6, 2, 2, 7>>, <<15, 1, 15, 8, 15>>, <<15, 1, 15, 1, 15>>,
       <<9, 9, 15, 1, 1>>, <<15, 8, 15, 1, 15>>, <<15, 8, 15, 9, 15>>, <<15, 1, 2, 4, 4>>,
       <<15, 9, 15, 9, 15>>, <<15, 9, 15, 1, 15>>, <<15, 9, 15, 9, 9>>, <<14, 9, 14, 9, 14>>,
       <<15, 8, 8, 8, 15>>, <<14, 9, 9, 9, 14>>, <<15, 8, 15, 8, 15>>, <<15, 8, 15, 8, 8>> >>

\* C10: loading the font writes row r of glyph d to address 5 * d + r, for
\* the 16 glyphs of the hex-digit table, and changes no cell from 0x050 on.
C10_FontLoaded ==
    [][hpc = "init" =>
         \A a \in Addr :
            memory'[a] = IF a < 80
                         THEN 16 * GlyphRows[(a \div 5) + 1][(a % 5) + 1]
                         ELSE memory[a]]_vars

\* C10 witness: the font has been loaded
C10_Witness ==
    /\ hpc = "sprites"
    /\ memory[0] = 240
    /\ memory[79] = 128
    /\ memory[80] = 0

\* the next step of the host is the timer update of cycle()
AtTimerUpdate == hpc = "loop" /\ loopi = speed

\* C11: a timer update decreases each timer by exactly 1 if it is nonzero
\* and leaves it 0 if it is 0, each independently of the other; both timers
\* are in 0 .. 255 in every reachable state.
C11_TimersCountDownToZero ==
    /\ [](delayTimer \in 0 .. 255 /\ soundTimer \in 0 .. 255)
    /\ [][(AtTimerUpdate /\ ~paused) =>
            /\ delayTimer' = (IF delayTimer = 0 THEN 0 ELSE delayTimer - 1)
            /\ soundTimer' = (IF soundTimer = 0 THEN 0 ELSE soundTimer - 1)]_vars

\* C11 witness: after two updates the delay timer set to 1 is 0 and has stayed
\* 0, the sound timer set to 255 is 253
C11_Witness ==
    /\ hpc = "sound"
    /\ frames = 2
    /\ delayTimer = 0
    /\ soundTimer = 253

\* C12 as stated: while paused, the frame's timer step still decrements the
\* nonzero timers by 1 (and the tone and render steps are performed).
C12_TimersRunWhilePaused ==
    [][(AtTimerUpdate /\ paused) =>
         /\ delayTimer' = (IF delayTimer = 0 THEN 0 ELSE delayTimer - 1)
         /\ soundTimer' = (IF soundTimer = 0 THEN 0 ELSE soundTimer - 1)]_vars

\* C12 amended: while paused, a frame executes no instruction and leaves both
\* timers unchanged, and still performs the tone step (the speaker plays iff
\* the sound timer is nonzero) and the render step (the canvas shows the
\* display).
C12_PausedFrameSkipsTimers ==
    [][paused =>
         /\ (hpc = "loop" /\ loopi < speed) =>
               UNCHANGED <<pc, v, i, stack, memory, display, delayTimer, soundTimer>>
         /\ AtTimerUpdate => (UNCHANGED <<delayTimer, soundTimer>> /\ hpc' = "sound")
         /\ hpc = "sound" => (oscillator' = (soundTimer > 0) /\ hpc' = "render")
         /\ hpc = "render" =>
               (canvas' = {c \in display : c \in 0 .. ((cols * rows) - 1)} /\ hpc' = "idle")]_vars

\* C12 witness: a whole frame has passed while paused: the timers set to 3
\* before the Fx0A are still 3 and the tone plays
C12_Witness ==
    /\ paused
    /\ hpc = "idle"
    /\ frames = 2
    /\ delayTimer = 3
    /\ soundTimer = 3
    /\ oscillator

\* the word is Fx0A
IsKeyWait(w) == Nib(w, 3) = 15 /\ w % 256 = 10

\* C13: Fx0A sets paused and leaves PC at the instruction after it; while
\* paused no instruction runs (PC, registers, I, stack and memory stay
\* unchanged) until a key press is delivered; the delivery writes the key's
\* code into register x of that Fx0A and clears paused, with PC still at the
\* instruction after the Fx0A.
C13_KeyWaitSuspendsUntilKeyPress ==
    /\ [](paused =>
            /\ pc \in 2 .. (MemSize - 1)
            /\ IsKeyWait(WordAt(memory, pc - 2))
            /\ onNextKeyPress = Nib(WordAt(memory, pc - 2), 2))
    /\ [][/\ (Executing /\ IsKeyWait(CurOp)) =>
               (paused' /\ pc' = pc + 2 /\ UNCHANGED <<v, i, stack, memory>>)
          /\ (paused /\ paused') => UNCHANGED <<pc, v, i, stack, memory>>
          /\ (paused /\ ~paused') =>
               /\ \E key \in Keys :
                     /\ key \in keysPressed'
                     /\ v' = [v EXCEPT ![Nib(WordAt(memory, pc - 2), 2)] = key]
               /\ UNCHANGED <<pc, i, stack, memory>>
          /\ (~paused /\ ~IsKeyWait(CurOp)) => ~paused']_vars

\* C13 witness: the key 10 was delivered to the LD V1,K at 0x200 and the
\* instruction after it, JP 0x202, has been executed
C13_Witness ==
    /\ WordAt(memory, 512) = 61706
    /\ WordAt(memory, 514) = 4610
    /\ ~paused
    /\ v[1] = 10
    /\ pc = 514
    /\ frames = 2
    /\ loopi > 0

\* the tone step of the last frame is done and no instruction has run since
AfterToneStep == hpc = "render" \/ (hpc = "idle" /\ frames > 0)

\* C14: at the end of every frame the tone plays iff the sound timer is
\* nonzero; a start request while playing and a stop request while stopped
\* change nothing: at most one oscillator is ever live, and it is the one
\* the speaker holds.
C14_TonePlaysIffSoundTimerNonzero ==
    /\ AfterToneStep => (oscillator <=> soundTimer > 0)
    /\ audioNodes \in {0, 1}
    /\ oscillator <=> audioNodes = 1

\* C14 witness: the second frame in a row asked for the tone while it played
C14_Witness ==
    /\ hpc = "render"
    /\ frames = 2
    /\ soundTimer = 253
    /\ oscillator
    /\ audioNodes = 1

\* C14 witness of the stop: the sound timer set to 2 has run out in the
\* second frame and the tone started by the first frame is stopped
C14_WitnessStopped ==
    /\ hpc = "render"
    /\ frames = 2
    /\ soundTimer = 0
    /\ v[0] = 2
    /\ ~oscillator

\* the I-relative memory indices the instruction word w uses
IndexAccesses(w) ==
    CASE Nib(w, 3) = 13 -> { i + r : r \in 0 .. (Nib(w, 0) - 1) }
      [] Nib(w, 3) = 15 /\ w % 256 = 51 -> { i, i + 1, i + 2 }
      [] Nib(w, 3) = 15 /\ w % 256 \in {85, 101} -> { i + r : r \in 0 .. Nib(w, 2) }
      [] OTHER -> {}

\* the memory indices the next fetch and execute uses
NextAccesses ==
    {pc, pc + 1} \cup (IF pc \in 0 .. (MemSize - 2) THEN IndexAccesses(CurOp) ELSE {})

\* C15: every memory access of an instruction uses an index in 0..4095:
\* the fetch at PC and PC + 1, and the I-relative accesses of Dxyn, Fx33,
\* Fx55 and Fx65.
C15_MemoryAccessesInRange ==
    Executing => NextAccesses \subseteq Addr

\* C16: within one frame at most speed = 10 instructions execute, one after
\* the other (loopi counts the iterations of the frame's loop), all of them
\* before the frame's single timer update, which is followed by the tone
\* decision, which is followed by the render call; the timers are updated
\* at most once per frame.
C16_FrameOrder ==
    /\ [](loopi \in 0 .. speed)
    /\ [][/\ (hpc = "idle" /\ hpc' # "idle") =>
                (hpc' = "loop" /\ loopi' = 0 /\ frames' = frames + 1)
          /\ (hpc = "loop" /\ loopi < speed) =>
                (loopi' = loopi + 1 /\ hpc' \in {"loop", "crashed"} /\ frames' = frames)
          /\ (pc' # pc \/ i' # i \/ stack' # stack \/ display' # display) =>
                (hpc = "loop" /\ loopi < speed /\ ~paused)
          /\ (hpc = "loop" /\ loopi = speed) =>
                (hpc' = "sound" /\ UNCHANGED <<pc, v, i, stack, memory, display, frames>>)
          /\ (hpc # "loop") => UNCHANGED <<delayTimer, soundTimer>>
          /\ (hpc = "sound") =>
                (hpc' = "render" /\ UNCHANGED <<canvas, loopi, frames>>)
          /\ (oscillator' # oscillator) => hpc = "sound"
          /\ (hpc = "render") =>
                (hpc' = "idle" /\ canvas' = Render(display) /\ UNCHANGED <<loopi, frames>>)
          /\ (canvas' # canvas) => hpc = "render"]_vars

\* C16 witness: the second frame has run its ten instructions (LD V0,DT read
\* the delay timer the first frame had counted down to 2), then counted the
\* timers down once, kept the tone on and rendered
C16_Witness ==
    /\ hpc = "idle"
    /\ frames = 2
    /\ loopi = speed
    /\ WordAt(memory, 518) = 61447
    /\ v[0] = 2
    /\ delayTimer = 1
    /\ soundTimer = 1
    /\ oscillator

\* the next instruction is RND Vx, kk
IsRandom == Executing /\ pc \in 0 .. (MemSize - 2) /\ Nib(CurOp, 3) = 12

\* C17: Cxkk can leave in Vx the value r AND kk for every byte r in 0..255
\* (so with kk = 0xFF, Vx = 255 is a possible outcome: some random draw of
\* the instruction step leaves it), and leaves only such values.
C17_RandomCoversAllBytes ==
    /\ [](IsRandom =>
            \A r \in 0 .. 255 : \E rand \in RandValues :
                ExecuteInstruction(Machine, CurOp, rand, keysPressed).v[Nib(CurOp, 2)]
                    = BitAnd(r, CurOp % 256))
    /\ [][IsRandom =>
            \E r \in 0 .. 255 : v' = [v EXCEPT ![Nib(CurOp, 2)] = BitAnd(r, CurOp % 256)]]_vars

\* the next instruction is the 8xyn with low nibble n
IsAlu(n) == Executing /\ pc \in 0 .. (MemSize - 2) /\ Nib(CurOp, 3) = 8 /\ Nib(CurOp, 0) = n

FlagOf(n, a, b) ==
    CASE n = 4 -> Carry(a, b)
      [] n = 5 -> NoBorrow(a, b)
      [] n = 6 -> a % 2
      [] n = 7 -> NoBorrow(b, a)
      [] n = 14 -> ((a \div 128) % 2) * 128

\* C19: when 8xy4, 8xy5, 8xy6, 8xy7 or 8xyE names VF as its destination
\* (x = 0xF), VF holds the flag output afterwards, computed from the values
\* the operands had before the instruction, and not the arithmetic result.
C19_FlagOverwritesResult ==
    [][\A n \in {4, 5, 6, 7, 14} :
         (IsAlu(n) /\ Nib(CurOp, 2) = 15) =>
             v'[15] = FlagOf(n, v[15], v[Nib(CurOp, 1)])]_vars

\* the next instruction is DRW Vx, Vy, n
IsDraw == Executing /\ pc \in 0 .. (MemSize - 2) /\ Nib(CurOp, 3) = 13

\* the cells DRW Vx, Vy, n is to toggle: ((Vx + c) mod 64, (Vy + r) mod 32)
\* for the set bits 7 - c of the sprite rows memory[I + r], Vx and Vy as
\* they are when the instruction begins
SpriteCells ==
    LET x0 == v[Nib(CurOp, 2)]
        y0 == v[Nib(CurOp, 1)]
    IN  { ((x0 + c) % cols) + (((y0 + r) % rows) * cols) :
            <<r, c>> \in { rc \in (0 .. (Nib(CurOp, 0) - 1)) \X (0 .. 7) :
                             (MemRead(memory, i + rc[1]) \div Pow2(7 - rc[2])) % 2 = 1 } }

\* C20: Dxyn toggles exactly the cells ((Vx0 + c) mod 64, (Vy0 + r) mod 32)
\* of the set sprite bits, Vx0 and Vy0 being the register values when the
\* instruction begins (x or y may be 0xF, the values go up to 255); no
\* other cell changes, and VF ends as 1 iff one of the toggles turned an on
\* pixel off, else 0.
C20_DrawTogglesSpriteCells ==
    [][IsDraw =>
         /\ display' = (display \ SpriteCells) \cup (SpriteCells \ display)
         /\ v'[15] = (IF SpriteCells \cap display # {} THEN 1 ELSE 0)]_vars

\* C21: the stack never holds more than 16 saved program counters, and a
\* 2nnn executed on the full stack fails (the host ends in its failed state)
\* and does not grow the stack.
C21_StackDepthBounded ==
    /\ [](Len(stack) <= 16)
    /\ [][(Executing /\ pc \in 0 .. (MemSize - 2) /\ Nib(CurOp, 3) = 2
             /\ Len(stack) = 16)
          => (hpc' = "crashed" /\ stack' = stack)]_vars

\* the program counter the claim gives for the instruction word w fetched
\* at p
PcAfter(w, p) ==
    LET c == Nib(w, 3)
        x == Nib(w, 2)
        y == Nib(w, 1)
        kk == w % 256
        skip(cond) == IF cond THEN p + 4 ELSE p + 2
    IN  CASE c \in {1, 2} -> w % 4096
          [] c = 11 -> (w % 4096) + v[0]
          [] c = 3 -> skip(v[x] = kk)
          [] c = 4 -> skip(v[x] # kk)
          [] c = 5 -> skip(v[x] = v[y])
          [] c = 9 -> skip(v[x] # v[y])
          [] c = 14 /\ kk = 158 -> skip(v[x] \in keysPressed)
          [] c = 14 /\ kk = 161 -> skip(v[x] \notin keysPressed)
          [] OTHER -> p + 2

\* C22: with p the PC at the fetch, every instruction but a jump, call,
\* return or skip ends with PC = p + 2; 3xkk, 4xkk, 5xy0, 9xy0, Ex9E and
\* ExA1 end with PC = p + 4 iff their condition holds, else p + 2; 1nnn ends
\* with PC = nnn, Bnnn with PC = nnn + V0, 2nnn with PC = nnn and p + 2 on
\* top of the stack.
C22_PcAdvancedBeforeEffects ==
    [][(Executing /\ pc \in 0 .. (MemSize - 2) /\ RecognizedOpcode(CurOp) /\ CurOp # 238) =>
         /\ pc' = PcAfter(CurOp, pc)
         /\ Nib(CurOp, 3) = 2 => stack' = Append(stack, pc + 2)]_vars

\* C22 witness: the key 1 was held, the skips, JP V0,0x225 with V0 = 1 and
\* CALL 0x22A of the second frame have run: PC = 0x22A, 0x228 on the stack
C22_Witness ==
    /\ WordAt(memory, 538) = 57502
    /\ frames = 2
    /\ hpc = "loop"
    /\ 1 \in keysPressed
    /\ v[0] = 1
    /\ pc = 554
    /\ stack = <<552>>

\* C23: no instruction is fetched or executed before the ROM request has
\* completed, however the completion interleaves with the frames: PC is
\* still 0x200 when the load completes (so the first instruction executed
\* is the program's first word).
C23_NoExecutionBeforeLoad ==
    /\ [](Executing => request = "done")
    /\ [][(request = "sent" /\ request' = "done") => pc = ProgramStart]_vars

\* the next instruction is Fxkk with the low byte kk
IsFx(kk) == Executing /\ pc \in 0 .. (MemSize - 2) /\ Nib(CurOp, 3) = 15 /\ CurOp % 256 = kk

\* the program at 0x200 is LD V0,aa; LD Vx,bb; LD I,nnn; LD [I],Vx;
\* LD Vx,[I] (as memory holds it now)
IsStoreLoad ==
    /\ Nib(WordAt(memory, 512), 3) = 6 /\ Nib(WordAt(memory, 512), 2) = 0
    /\ Nib(WordAt(memory, 514), 3) = 6
    /\ Nib(WordAt(memory, 516), 3) = 10
    /\ WordAt(memory, 518) = Word(15, Nib(WordAt(memory, 514), 2), 5, 5)
    /\ WordAt(memory, 520) = Word(15, Nib(WordAt(memory, 514), 2), 6, 5)

\* C24: for x in 0..15 and I + x <= 4095, Fx55 copies V0..Vx to
\* memory[I..I+x] and changes no register and no other memory cell; Fx65
\* copies memory[I..I+x] into V0..Vx and changes no memory; neither changes
\* I; so after Fx55 and then Fx65 with the same x the registers are what
\* they were before the Fx55 (here: what the two LD before it left).
C24_StoreLoadRegisters ==
    /\ [][LET x == Nib(CurOp, 2)
          IN  /\ (IsFx(85) /\ i + x <= MemSize - 1) =>
                    /\ memory' = [a \in Addr |->
                                    IF a \in i .. (i + x) THEN v[a - i] ELSE memory[a]]
                    /\ UNCHANGED <<v, i>>
              /\ (IsFx(101) /\ i + x <= MemSize - 1) =>
                    /\ v' = [r \in RegIdx |-> IF r <= x THEN memory[i + r] ELSE v[r]]
                    /\ UNCHANGED <<memory, i>>]_vars
    /\ []((hpc = "loop" /\ loopi = 5 /\ pc = 522 /\ IsStoreLoad) =>
            v = [r \in RegIdx |->
                   IF r = Nib(WordAt(memory, 514), 2) THEN WordAt(memory, 514) % 256
                   ELSE IF r = 0 THEN WordAt(memory, 512) % 256 ELSE 0])

\* C24 witness: LD V0,0xFF; LD VF,0x0A; LD I,0xFF0; LD [I],VF; LD VF,[I]
\* have run: the sixteen registers went to memory[0xFF0..0xFFF] and back
C24_Witness ==
    /\ hpc = "loop"
    /\ loopi = 5
    /\ pc = 522
    /\ IsStoreLoad
    /\ i = 4080
    /\ memory[4080] = 255
    /\ memory[4095] = 10
    /\ v[0] = 255
    /\ v[15] = 10

====
